---------------------------- MODULE Spec2Model ----------------------------
(***************************************************************************)
(* Model of i.bruno@alustudent.com_il.py: the Assignment / Course /        *)
(* Student classes, their aggregation queries, the rendered report and the *)
(* SMTP exchange of send_report_to_parent.                                 *)
(*                                                                         *)
(* Numbers: Python computes with floats; the model computes with exact     *)
(* rationals <<numerator, denominator>> in lowest terms (denominator > 0), *)
(* so float rounding noise (49*10/100/10*100 = 49.00000000000001) is not   *)
(* represented.  Scores and weights are drawn from integers.               *)
(***************************************************************************)
EXTENDS Integers, Sequences, FiniteSets, TLC

VARIABLES
    courses,   \* the Course objects constructed so far (lines 20-24), by identity 1..Len
    student,   \* the one Student object (lines 70-73); student.courses holds Course identities
    ret,       \* outcome of the last completed call: operation, receiver, arguments, value / exception
    pc,        \* position inside send_report_to_parent's try block ("idle" outside it)
    frame,     \* locals of the running / last send_report_to_parent call
    server     \* the SMTP collaborator as seen by the call: steps attempted, connection, error

vars == <<courses, student, ret, pc, frame, server>>

----------------------------------------------------------------------------
(* Bounds of the explored inputs *)

\* Spec: total number of objects and list entries built by mutating calls
MaxSize == 3
\* SpecStudent: total number of courses, enrolments and assignments
MaxGraph == 6
\* SpecCourse: assignments added to the course
MaxAssignments == 2
\* SpecAttendance: attendance records marked on the course
MaxAttendance == 4

Names == {"A", "B"}
Scores == {20, 49, 50}
Weights == {0, 10, 20}
Types == {"Formative", "Summative"}
Orders == {"ascending", "descending", "sideways"}
Dates == {"Sep 16", "Sep 17"}
Statuses == {"Present", "Absent", "Late"}
SessionCounts == {0, 1, 2, 3}

----------------------------------------------------------------------------
(* Exact rational arithmetic standing in for Python's float arithmetic *)

Abs(x) == IF x < 0 THEN -x ELSE x

RECURSIVE GCD(_, _)
GCD(a, b) == IF b = 0 THEN a ELSE GCD(b, a % b)

\* n / d in lowest terms with a positive denominator (d # 0)
Rat(n, d) ==
    LET g == GCD(Abs(n), Abs(d))
        s == IF d < 0 THEN -1 ELSE 1
    IN  <<(s * n) \div g, (s * d) \div g>>

Zero == <<0, 1>>
FromInt(i) == <<i, 1>>
RatAdd(x, y) == Rat(x[1] * y[2] + y[1] * x[2], x[2] * y[2])
RatMul(x, y) == Rat(x[1] * y[1], x[2] * y[2])
\* x / y, y # 0
RatDiv(x, y) == Rat(x[1] * y[2], x[2] * y[1])
RatGE(x, y) == x[1] * y[2] >= y[1] * x[2]

\* f"{x:.2f}": x rounded to hundredths, ties to even; the result in hundredths
Format2f(x) ==
    LET n == x[1] * 100
        q == n \div x[2]
        r == n - q * x[2]
    IN  IF 2 * r < x[2] THEN q
        ELSE IF 2 * r > x[2] THEN q + 1
        ELSE IF q % 2 = 0 THEN q ELSE q + 1

\* outcome of a call: a returned value or a raised exception
Return(v) == [raised |-> "none", value |-> v]
Raise(e) == [raised |-> e, value |-> "None"]

----------------------------------------------------------------------------
(* class Assignment *)

Assignment(name, score, weight, assignment_type) ==
    [name |-> name, score |-> score, weight |-> weight,
     assignment_type |-> assignment_type]

get_weighted_score(self) == Rat(self.score * self.weight, 100)

----------------------------------------------------------------------------
(* class Course: the queries, as functions of the Course object *)

Course(name, total_sessions) ==
    [name |-> name, assignments |-> <<>>, attendance |-> <<>>,
     total_sessions |-> total_sessions]

\* sum(1 for _, status in self.attendance if status == 'Present')
RECURSIVE total_present(_, _)
total_present(attendance, i) ==
    IF i = 0 THEN 0
    ELSE total_present(attendance, i - 1)
         + (IF attendance[i][2] = "Present" THEN 1 ELSE 0)

\* variant: the percentage of the sessions recorded instead of total_sessions
calculate_attendance_recorded(self) ==
    IF Len(self.attendance) = 0 THEN Raise("ZeroDivisionError")
    ELSE Return(RatMul(Rat(total_present(self.attendance, Len(self.attendance)),
                           Len(self.attendance)),
                       FromInt(100)))

calculate_attendance(self) ==
    IF self.total_sessions = 0 THEN Raise("ZeroDivisionError")
    ELSE Return(RatMul(Rat(total_present(self.attendance, Len(self.attendance)),
                           self.total_sessions),
                       FromInt(100)))

\* the loop of calculate_group_score after its first i iterations:
\* <<total_weight, total_weighted_score>>
RECURSIVE group_loop(_, _, _)
group_loop(assignments, group_type, i) ==
    IF i = 0 THEN <<0, Zero>>
    ELSE LET acc == group_loop(assignments, group_type, i - 1)
             a == assignments[i]
         IN  IF a.assignment_type = group_type
             THEN <<acc[1] + a.weight, RatAdd(acc[2], get_weighted_score(a))>>
             ELSE acc

calculate_group_score(self, group_type) ==
    group_loop(self.assignments, group_type, Len(self.assignments))

FormativeThreshold == 30
SummativeThreshold == 20

pass_formative(formative_total) == RatGE(formative_total, FromInt(FormativeThreshold))
\* variant: the summative group held to the formative threshold
pass_summative_as_formative(summative_total) ==
    RatGE(summative_total, FromInt(FormativeThreshold))

pass_summative(summative_total) == RatGE(summative_total, FromInt(SummativeThreshold))

\* score / weight * 100 if weight else 0
group_total(group) ==
    IF group[1] # 0
    THEN RatMul(RatDiv(group[2], FromInt(group[1])), FromInt(100))
    ELSE Zero

check_progression(self) ==
    LET formative == calculate_group_score(self, "Formative")
        summative == calculate_group_score(self, "Summative")
        formative_total == group_total(formative)
        summative_total == group_total(summative)
        passed == pass_formative(formative_total) /\ pass_summative(summative_total)
    IN  <<passed, formative_total, summative_total>>

ResubmissionScore == 50

\* variant: a score of exactly 50 counted as below the bar
is_resubmission_candidate_inclusive(a) ==
    a.score <= ResubmissionScore /\ a.assignment_type = "Formative"

is_resubmission_candidate(a) ==
    a.score < ResubmissionScore /\ a.assignment_type = "Formative"

RECURSIVE resubmission_loop(_, _)
resubmission_loop(assignments, i) ==
    IF i = 0 THEN <<>>
    ELSE IF is_resubmission_candidate(assignments[i])
         THEN Append(resubmission_loop(assignments, i - 1), assignments[i].name)
         ELSE resubmission_loop(assignments, i - 1)

get_resubmission_candidates(self) ==
    resubmission_loop(self.assignments, Len(self.assignments))


\* list.reverse()
Reverse(s) == [i \in 1..Len(s) |-> s[Len(s) + 1 - i]]

\* one step of the stable (binary insertion) sort: x goes after every element
\* whose score is <= x.score
RECURSIVE insort(_, _)
insort(s, x) ==
    IF s = <<>> THEN <<x>>
    ELSE IF s[Len(s)].score <= x.score THEN Append(s, x)
    ELSE Append(insort(SubSeq(s, 1, Len(s) - 1), x), s[Len(s)])

RECURSIVE stable_sort(_, _)
stable_sort(s, i) ==
    IF i = 0 THEN <<>> ELSE insort(stable_sort(s, i - 1), s[i])

\* variant: the descending order obtained by reversing the ascending result
sorted_then_reversed(lst, reverse) ==
    IF reverse
    THEN Reverse(stable_sort(lst, Len(lst)))
    ELSE stable_sort(lst, Len(lst))

\* sorted(lst, key=lambda x: x.score, reverse=reverse): with reverse the list is
\* reversed, sorted stably in ascending order and reversed again
sorted(lst, reverse) ==
    IF reverse
    THEN Reverse(stable_sort(Reverse(lst), Len(lst)))
    ELSE stable_sort(lst, Len(lst))

generate_transcript(self, sort_order) ==
    sorted(self.assignments, sort_order = "descending")

----------------------------------------------------------------------------
(* class Student: the queries, as functions of the Student object and the heap *)

Student(name, email) == [name |-> name, email |-> email, courses |-> <<>>]

\* the inner loop of calculate_gpa over one course's assignments, from
\* accumulator acc = <<total_weighted_score, total_weight>>
RECURSIVE gpa_assignment_loop(_, _, _)
gpa_assignment_loop(assignments, i, acc) ==
    IF i = 0 THEN acc
    ELSE LET before == gpa_assignment_loop(assignments, i - 1, acc)
         IN  <<RatAdd(before[1], get_weighted_score(assignments[i])),
               before[2] + assignments[i].weight>>

\* the outer loop of calculate_gpa after the first i courses of self.courses
RECURSIVE gpa_loop(_, _, _)
gpa_loop(self, heap, i) ==
    IF i = 0 THEN <<Zero, 0>>
    ELSE LET course == heap[self.courses[i]]
         IN  gpa_assignment_loop(course.assignments, Len(course.assignments),
                                 gpa_loop(self, heap, i - 1))

\* variant: the ratio returned without the factor 100
calculate_gpa_ratio(self, heap) ==
    LET acc == gpa_loop(self, heap, Len(self.courses))
    IN  IF acc[2] # 0 THEN RatDiv(acc[1], FromInt(acc[2])) ELSE Zero

calculate_gpa(self, heap) ==
    LET acc == gpa_loop(self, heap, Len(self.courses))
        total_weighted_score == acc[1]
        total_weight == acc[2]
    IN  IF total_weight # 0
        THEN RatMul(RatDiv(total_weighted_score, FromInt(total_weight)), FromInt(100))
        ELSE Zero

\* generate_report's own accumulation over one course's assignments, from
\* acc = [table_data, total_weighted_score_all_courses, total_weight_all_courses]
RECURSIVE overall_loop(_, _, _)
overall_loop(course, i, acc) ==
    IF i = 0 THEN acc
    ELSE LET before == overall_loop(course, i - 1, acc)
             a == course.assignments[i]
         IN  [table_data |->
                 Append(before.table_data,
                        <<course.name, a.name, a.score, a.weight,
                          Format2f(get_weighted_score(a))>>),
              total_weighted_score_all_courses |->
                 RatAdd(before.total_weighted_score_all_courses,
                        get_weighted_score(a)),
              total_weight_all_courses |->
                 before.total_weight_all_courses + a.weight]

\* variant: the average of the weighted scores over the number of assignments
overall_avg_score_per_row(acc) ==
    IF Len(acc.table_data) # 0
    THEN RatMul(RatDiv(acc.total_weighted_score_all_courses,
                       FromInt(Len(acc.table_data))),
                FromInt(100))
    ELSE Zero

overall_avg_score(acc) ==
    IF acc.total_weight_all_courses # 0
    THEN RatMul(RatDiv(acc.total_weighted_score_all_courses,
                       FromInt(acc.total_weight_all_courses)),
                FromInt(100))
    ELSE Zero

\* rows of the per-course transcript table
transcript_rows(course, sort_order) ==
    LET t == generate_transcript(course, sort_order)
    IN  [i \in 1..Len(t) |->
            <<t[i].name, t[i].assignment_type, t[i].score, t[i].weight>>]

\* the text appended to the report for one course (calculate_attendance returned)
course_block(course, sort_order) ==
    LET progression == check_progression(course)
        attendance_percentage == calculate_attendance(course).value
    IN  [course |-> course.name,
         formative |-> Format2f(progression[2]),
         summative |-> Format2f(progression[3]),
         passed |-> IF progression[1] THEN "Yes" ELSE "No",
         resubmission |-> get_resubmission_candidates(course),
         attendance |-> Format2f(attendance_percentage),
         standing |-> IF attendance_percentage = FromInt(100)
                      THEN "Attendance is in good standing (100%)."
                      ELSE "Warning: Attendance is below 100%.",
         transcript |-> transcript_rows(course, sort_order)]

\* the loop of generate_report after the first i courses of self.courses
RECURSIVE report_loop(_, _, _, _)
report_loop(self, heap, sort_order, i) ==
    IF i = 0
    THEN [raised |-> "none", blocks |-> <<>>,
          acc |-> [table_data |-> <<>>,
                   total_weighted_score_all_courses |-> Zero,
                   total_weight_all_courses |-> 0]]
    ELSE LET before == report_loop(self, heap, sort_order, i - 1)
             course == heap[self.courses[i]]
         IN  IF before.raised # "none" THEN before
             ELSE IF calculate_attendance(course).raised # "none"
             THEN [before EXCEPT !.raised = calculate_attendance(course).raised]
             ELSE [raised |-> "none",
                   blocks |-> Append(before.blocks, course_block(course, sort_order)),
                   acc |-> overall_loop(course, Len(course.assignments), before.acc)]

generate_report(self, heap, sort_order) ==
    LET loop == report_loop(self, heap, sort_order, Len(self.courses))
    IN  IF loop.raised # "none" THEN Raise(loop.raised)
        ELSE Return([header |-> <<self.name, self.email>>,
                     blocks |-> loop.blocks,
                     gpa |-> Format2f(calculate_gpa(self, heap)),
                     overall_avg_score |-> Format2f(overall_avg_score(loop.acc)),
                     table_data |-> loop.acc.table_data])

----------------------------------------------------------------------------
(* The mutating methods, as functions of the object they change *)

\* variant: the new assignment put at the head of the list
add_assignment_front(self, assignment) ==
    [self EXCEPT !.assignments = <<assignment>> \o @]

add_assignment(self, assignment) ==
    [self EXCEPT !.assignments = Append(@, assignment)]

mark_attendance(self, date, status) ==
    [self EXCEPT !.attendance = Append(@, <<date, status>>)]

add_course(self, course) ==
    [self EXCEPT !.courses = Append(@, course)]

----------------------------------------------------------------------------
(* State machine: one action per call; a call records its outcome in ret *)

Call(op, self, args, outcome) ==
    [op |-> op, self |-> self, args |-> args,
     raised |-> outcome.raised, value |-> outcome.value]

NoFrame == [msg |-> "None", printed |-> <<>>]
NoServer == [calls |-> <<>>, connection |-> "none", error |-> "none"]

Init ==
    /\ courses = <<>>
    /\ student = Student("ISHIMWE Bruno", "i.bruno@alustudent.com")
    /\ ret = Call("Student", 0, <<>>, Return("None"))
    /\ pc = "idle"
    /\ frame = NoFrame
    /\ server = NoServer

\* Course(name, total_sessions)
NewCourse(name, total_sessions) ==
    /\ pc = "idle"
    /\ courses' = Append(courses, Course(name, total_sessions))
    /\ ret' = Call("Course", Len(courses) + 1, <<name, total_sessions>>, Return("None"))
    /\ UNCHANGED <<student, pc, frame, server>>

\* courses[c].add_assignment(assignment)
AddAssignment(c, assignment) ==
    /\ pc = "idle"
    /\ courses' = [courses EXCEPT ![c] = add_assignment(@, assignment)]
    /\ ret' = Call("add_assignment", c, <<assignment>>, Return("None"))
    /\ UNCHANGED <<student, pc, frame, server>>

\* courses[c].mark_attendance(date, status)
MarkAttendance(c, date, status) ==
    /\ pc = "idle"
    /\ courses' = [courses EXCEPT ![c] = mark_attendance(@, date, status)]
    /\ ret' = Call("mark_attendance", c, <<date, status>>, Return("None"))
    /\ UNCHANGED <<student, pc, frame, server>>

\* student.add_course(courses[c])
AddCourse(c) ==
    /\ pc = "idle"
    /\ student' = add_course(student, c)
    /\ ret' = Call("add_course", 0, <<c>>, Return("None"))
    /\ UNCHANGED <<courses, pc, frame, server>>

\* a query: computes its outcome from the objects and changes none of them
Query(op, self, args, outcome) ==
    /\ pc = "idle"
    /\ ret' = Call(op, self, args, outcome)
    /\ UNCHANGED <<courses, student, pc, frame, server>>

CalculateAttendance(c) ==
    Query("calculate_attendance", c, <<>>, calculate_attendance(courses[c]))

CalculateGroupScore(c, group_type) ==
    Query("calculate_group_score", c, <<group_type>>,
          Return(calculate_group_score(courses[c], group_type)))

CheckProgression(c) ==
    Query("check_progression", c, <<>>, Return(check_progression(courses[c])))

GetResubmissionCandidates(c) ==
    Query("get_resubmission_candidates", c, <<>>,
          Return(get_resubmission_candidates(courses[c])))

GenerateTranscript(c, sort_order) ==
    Query("generate_transcript", c, <<sort_order>>,
          Return(generate_transcript(courses[c], sort_order)))

CalculateGpa ==
    Query("calculate_gpa", 0, <<>>, Return(calculate_gpa(student, courses)))

GenerateReport(sort_order) ==
    Query("generate_report", 0, <<sort_order>>,
          generate_report(student, courses, sort_order))

----------------------------------------------------------------------------
(* send_report_to_parent: the call, then the statements of its try block one
   at a time.  Each transport statement either returns or raises; which of the
   two is the collaborator's choice. *)

\* the statements of the try block, in program order
try_block == <<"SMTP", "starttls", "login", "sendmail", "quit">>

\* variant: the login statement left out of the try block
next_statement_without_login(step) ==
    CASE step = "SMTP" -> "starttls"
      [] step = "starttls" -> "sendmail"
      [] step = "login" -> "sendmail"
      [] step = "sendmail" -> "quit"
      [] OTHER -> "print"

\* the statement that follows step when step returns
next_statement(step) ==
    LET i == CHOOSE k \in 1..Len(try_block) : try_block[k] = step
    IN  IF i < Len(try_block) THEN try_block[i + 1] ELSE "print"

\* the connection once step has returned
connection_after(step, connection) ==
    CASE step = "SMTP" -> "open"
      [] step = "quit" -> "closed"
      [] OTHER -> connection

\* everything up to the try block: render the report, build the message
SendReportToParent(parent_email, sender_email, app_password, sort_order) ==
    LET report == generate_report(student, courses, sort_order)
        args == <<parent_email, sender_email, app_password, sort_order>>
    IN  /\ pc = "idle"
        /\ server' = NoServer
        /\ IF report.raised # "none"
           THEN /\ ret' = Call("send_report_to_parent", 0, args, Raise(report.raised))
                /\ frame' = NoFrame
                /\ pc' = "idle"
           ELSE /\ ret' = Call("send_report_to_parent", 0, args, Return("running"))
                /\ frame' = [msg |-> [From |-> sender_email, To |-> parent_email,
                                      Subject |-> <<"Student Report for", student.name>>,
                                      body |-> report.value],
                             printed |-> <<>>]
                /\ pc' = try_block[1]
        /\ UNCHANGED <<courses, student>>

\* print(f"Report sent to {parent_email}") and the return after it
print_sent ==
    /\ frame' = [frame EXCEPT !.printed = Append(@, <<"Report sent to", frame.msg.To>>)]
    /\ ret' = [ret EXCEPT !.value = "None"]
    /\ pc' = "idle"

\* variant: the handler lets the exception through instead of printing it
except_reraise(e) ==
    /\ frame' = frame
    /\ ret' = [ret EXCEPT !.raised = e, !.value = "None"]
    /\ pc' = "idle"

\* except Exception as e: print(f"Failed to send email: {str(e)}"), then return
except_Exception(e) ==
    /\ frame' = [frame EXCEPT !.printed = Append(@, <<"Failed to send email:", e>>)]
    /\ ret' = [ret EXCEPT !.value = "None"]
    /\ pc' = "idle"

\* the statement step of the try block returns
Returns(step) ==
    /\ pc = step
    /\ server' = [server EXCEPT !.calls = Append(@, step),
                                !.connection = connection_after(step, @)]
    /\ IF next_statement(step) = "print"
       THEN print_sent
       ELSE /\ pc' = next_statement(step)
            /\ UNCHANGED <<frame, ret>>
    /\ UNCHANGED <<courses, student>>

\* the statement step of the try block raises; a quit that raises may or may
\* not have closed the socket
Raises(step) ==
    /\ pc = step
    /\ \E connection \in IF step = "quit" THEN {"open", "closed"}
                         ELSE {server.connection} :
          server' = [server EXCEPT !.calls = Append(@, step),
                                   !.connection = connection,
                                   !.error = step]
    /\ except_Exception(step)
    /\ UNCHANGED <<courses, student>>

SMTP == Returns("SMTP") \/ Raises("SMTP")
Starttls == Returns("starttls") \/ Raises("starttls")
Login == Returns("login") \/ Raises("login")
Sendmail == Returns("sendmail") \/ Raises("sendmail")
Quit == Returns("quit") \/ Raises("quit")

----------------------------------------------------------------------------
(* Specifications *)

RECURSIVE Entries(_, _)
Entries(heap, i) ==
    IF i = 0 THEN 0
    ELSE Entries(heap, i - 1) + Len(heap[i].assignments) + Len(heap[i].attendance)

\* objects and list entries built so far
Size == Len(courses) + Len(student.courses) + Entries(courses, Len(courses))

Ids == 1..Len(courses)

ParentEmail == "ishimwebruno331@gmail.com"
SenderEmail == "i.bruno@alustudent.com"
AppPassword == "PRE EDUCA STD PLL"

SampleAssignments ==
    {Assignment("A", 50, 10, "Formative"), Assignment("B", 20, 20, "Summative")}

\* The whole program: every operation, over small inputs
Next ==
    \/ \E total_sessions \in {0, 1} :
          Size < MaxSize /\ NewCourse("Math", total_sessions)
    \/ \E c \in Ids : Size < MaxSize /\ AddCourse(c)
    \/ \E c \in Ids, a \in SampleAssignments : Size < MaxSize /\ AddAssignment(c, a)
    \/ \E c \in Ids, status \in {"Present", "Absent"} :
          Size < MaxSize /\ MarkAttendance(c, "Sep 16", status)
    \/ \E c \in Ids : CalculateAttendance(c)
    \/ \E c \in Ids, group_type \in Types : CalculateGroupScore(c, group_type)
    \/ \E c \in Ids : CheckProgression(c)
    \/ \E c \in Ids : GetResubmissionCandidates(c)
    \/ \E c \in Ids, sort_order \in {"ascending", "descending"} :
          GenerateTranscript(c, sort_order)
    \/ CalculateGpa
    \/ \E sort_order \in {"ascending", "descending"} : GenerateReport(sort_order)
    \/ SendReportToParent(ParentEmail, SenderEmail, AppPassword, "ascending")
    \/ SMTP
    \/ Starttls
    \/ Login
    \/ Sendmail
    \/ Quit

Spec == Init /\ [][Next]_vars

\* One course and its assignments, over every assignment of the input sets
AllAssignments ==
    {Assignment(n, sc, w, t) : n \in Names, sc \in Scores, w \in Weights, t \in Types}

NextCourse ==
    \/ /\ courses = <<>>
       /\ NewCourse("Math", 1)
    \/ \E c \in Ids, a \in AllAssignments :
          /\ Len(courses[c].assignments) < MaxAssignments
          /\ AddAssignment(c, a)
    \/ \E c \in Ids, group_type \in Types : CalculateGroupScore(c, group_type)
    \/ \E c \in Ids : CheckProgression(c)
    \/ \E c \in Ids : GetResubmissionCandidates(c)
    \/ \E c \in Ids, sort_order \in Orders : GenerateTranscript(c, sort_order)

SpecCourse == Init /\ [][NextCourse]_vars

\* One course and its attendance log
NextAttendance ==
    \/ /\ courses = <<>>
       /\ \E total_sessions \in SessionCounts : NewCourse("Math", total_sessions)
    \/ \E c \in Ids, date \in Dates, status \in Statuses :
          /\ Len(courses[c].attendance) < MaxAttendance
          /\ MarkAttendance(c, date, status)
    \/ \E c \in Ids : CalculateAttendance(c)

SpecAttendance == Init /\ [][NextAttendance]_vars

\* The student's graph of courses and assignments, and the overall figures
GraphAssignments ==
    {Assignment("A", 20, 10, "Formative"), Assignment("B", 50, 20, "Summative"),
     Assignment("C", 49, 0, "Formative")}

GraphSize == Len(courses) + Len(student.courses) + Entries(courses, Len(courses))

NextStudent ==
    \/ GraphSize < MaxGraph /\ NewCourse("Math", 1)
    \/ \E c \in Ids : GraphSize < MaxGraph /\ AddCourse(c)
    \/ \E c \in Ids, a \in GraphAssignments :
          GraphSize < MaxGraph /\ AddAssignment(c, a)
    \/ CalculateGpa
    \/ \E sort_order \in {"ascending", "descending"} : GenerateReport(sort_order)

SpecStudent == Init /\ [][NextStudent]_vars

----------------------------------------------------------------------------
(* Properties.  The reference values below are written from the stated
   contracts, over index sets, independently of the loops above. *)

RECURSIVE SumInt(_, _)
SumInt(f, S) ==
    IF S = {} THEN 0
    ELSE LET x == CHOOSE y \in S : TRUE IN f[x] + SumInt(f, S \ {x})

\* (sum of score * weight / 100 over S) / (sum of weight over S) * 100, or 0
\* when the weights sum to 0; f maps each index of S to its assignment
WeightedPercentage(f, S) ==
    LET weight == SumInt([x \in S |-> f[x].weight], S)
        product == SumInt([x \in S |-> f[x].score * f[x].weight], S)
    IN  IF weight = 0 THEN Zero ELSE Rat(product, weight)

OfType(assignments, group_type) ==
    {i \in DOMAIN assignments : assignments[i].assignment_type = group_type}

\* C1: check_progression returns, without raising, formative_total and
\* summative_total as the weighted percentage of the assignments of each type
\* (0 when that type's weights sum to 0) and passed = formative_total >= 30 and
\* summative_total >= 20.
C1_Progression ==
    ret.op = "check_progression" =>
        LET a == courses[ret.self].assignments
            formative_total == WeightedPercentage(a, OfType(a, "Formative"))
            summative_total == WeightedPercentage(a, OfType(a, "Summative"))
            passed == /\ formative_total[1] >= 30 * formative_total[2]
                      /\ summative_total[1] >= 20 * summative_total[2]
        IN  /\ ret.raised = "none"
            /\ ret.value = <<passed, formative_total, summative_total>>

\* a course of one Formative and one Summative assignment that passes with the
\* summative group exactly on its threshold
C1_Witness ==
    /\ ret.op = "check_progression"
    /\ ret.value[1] = TRUE
    /\ ret.value[3] = <<20, 1>>
    /\ Len(courses[ret.self].assignments) = 2

\* C6: get_resubmission_candidates returns exactly the names of the Formative
\* assignments scoring strictly below 50, in insertion order.
C6_Resubmission ==
    ret.op = "get_resubmission_candidates" =>
        LET a == courses[ret.self].assignments
            eligible == {i \in DOMAIN a :
                            a[i].assignment_type = "Formative" /\ a[i].score < 50}
            names == ret.value
        IN  /\ ret.raised = "none"
            /\ Len(names) = Cardinality(eligible)
            /\ \E at \in [DOMAIN names -> eligible] :
                  /\ \A j, k \in DOMAIN names : j < k => at[j] < at[k]
                  /\ \A k \in DOMAIN names : names[k] = a[at[k]].name

\* a Formative at 49 listed while a Formative at 50 before it is left out
C6_Witness ==
    /\ ret.op = "get_resubmission_candidates"
    /\ Len(courses[ret.self].assignments) = 2
    /\ courses[ret.self].assignments[1] = Assignment("A", 50, 10, "Formative")
    /\ courses[ret.self].assignments[2] = Assignment("B", 49, 10, "Formative")
    /\ ret.value = <<"B">>

\* C7: generate_transcript returns a permutation of the assignments, sorted by
\* score (non-increasing for "descending", non-decreasing for any other order),
\* with equal scores kept in insertion order in both directions.
C7_Transcript ==
    ret.op = "generate_transcript" =>
        LET a == courses[ret.self].assignments
            t == ret.value
            descending == ret.args[1] = "descending"
        IN  /\ ret.raised = "none"
            /\ Len(t) = Len(a)
            /\ \E from \in [DOMAIN t -> DOMAIN a] :
                  /\ \A j, k \in DOMAIN t : j # k => from[j] # from[k]
                  /\ \A k \in DOMAIN t : t[k] = a[from[k]]
                  /\ \A j, k \in DOMAIN t :
                        (j < k /\ t[j].score = t[k].score) => from[j] < from[k]
            /\ \A j, k \in DOMAIN t :
                  j < k => IF descending THEN t[j].score >= t[k].score
                           ELSE t[j].score <= t[k].score

\* a descending transcript of two assignments tied on score
C7_Witness ==
    /\ ret.op = "generate_transcript"
    /\ ret.args = <<"descending">>
    /\ Len(ret.value) = 2
    /\ ret.value[1].score = ret.value[2].score
    /\ ret.value[1] # ret.value[2]

\* C5: with total_sessions > 0, calculate_attendance returns the number of
\* records whose status is exactly "Present" (same-date records counted each)
\* divided by total_sessions, times 100; it is not capped at 100 and records of
\* any other status do not count.
C5_Attendance ==
    (ret.op = "calculate_attendance" /\ courses[ret.self].total_sessions > 0) =>
        LET self == courses[ret.self]
            present == Cardinality({i \in DOMAIN self.attendance :
                                       self.attendance[i][2] = "Present"})
        IN  /\ ret.raised = "none"
            /\ ret.value = Rat(present * 100, self.total_sessions)
            /\ present > self.total_sessions => ret.value[1] > 100 * ret.value[2]

\* two "Present" records of the same date and a "Late" one on a course of one
\* session: 200%
C5_Witness ==
    /\ ret.op = "calculate_attendance"
    /\ courses[ret.self].total_sessions = 1
    /\ courses[ret.self].attendance =
          <<<<"Sep 16", "Present">>, <<"Sep 17", "Late">>, <<"Sep 16", "Present">>>>
    /\ ret.value = <<200, 1>>

\* the assignments of all enrolled courses, as <<position in student.courses,
\* position in that course's assignments>>
Enrolled ==
    {p \in (DOMAIN student.courses) \X (1..MaxGraph) :
        p[2] <= Len(courses[student.courses[p[1]]].assignments)}

EnrolledAssignment == [p \in Enrolled |-> courses[student.courses[p[1]]].assignments[p[2]]]

\* C3: calculate_gpa returns the weighted percentage over all assignments of
\* all the student's courses, and 0 without raising when the weights sum to 0.
C3_Gpa ==
    ret.op = "calculate_gpa" =>
        /\ ret.raised = "none"
        /\ ret.value = WeightedPercentage(EnrolledAssignment, Enrolled)

\* two different courses enrolled, with assignments of different weights
C3_Witness ==
    /\ ret.op = "calculate_gpa"
    /\ Len(student.courses) = 2
    /\ student.courses[1] # student.courses[2]
    /\ courses[student.courses[1]].assignments = <<Assignment("A", 20, 10, "Formative")>>
    /\ courses[student.courses[2]].assignments = <<Assignment("B", 50, 20, "Summative")>>
    /\ ret.value = <<40, 1>>

\* C8: in every report generate_report produces, the Overall GPA and the
\* Overall Average Score are equal.
C8_GpaIsAverage ==
    (ret.op = "generate_report" /\ ret.raised = "none") =>
        ret.value.gpa = ret.value.overall_avg_score

\* a report over two courses whose overall figure is 40.00
C8_Witness ==
    /\ ret.op = "generate_report"
    /\ ret.raised = "none"
    /\ Len(ret.value.blocks) = 2
    /\ Len(ret.value.table_data) = 2
    /\ ret.value.overall_avg_score = 4000

IsPrefix(s, t) == Len(s) <= Len(t) /\ SubSeq(t, 1, Len(s)) = s

\* every list's old content is a prefix of its new content
PrefixStep ==
    /\ IsPrefix(student.courses, student'.courses)
    /\ Len(courses) <= Len(courses')
    /\ \A c \in DOMAIN courses :
          /\ IsPrefix(courses[c].assignments, courses'[c].assignments)
          /\ IsPrefix(courses[c].attendance, courses'[c].attendance)

\* what the step of each operation does to the lists; a step that leaves
\* every list as it was keeps every prefix
AppendOnlyStep ==
    CASE ret'.op = "add_course" ->
          /\ student'.courses = Append(student.courses, ret'.args[1])
          /\ courses' = courses
          /\ PrefixStep
      [] ret'.op = "add_assignment" ->
          /\ courses'[ret'.self].assignments =
                Append(courses[ret'.self].assignments, ret'.args[1])
          /\ courses'[ret'.self].attendance = courses[ret'.self].attendance
          /\ \A c \in DOMAIN courses : c # ret'.self => courses'[c] = courses[c]
          /\ Len(courses') = Len(courses)
          /\ student' = student
          /\ PrefixStep
      [] ret'.op = "mark_attendance" ->
          /\ courses'[ret'.self].attendance =
                Append(courses[ret'.self].attendance, <<ret'.args[1], ret'.args[2]>>)
          /\ courses'[ret'.self].assignments = courses[ret'.self].assignments
          /\ \A c \in DOMAIN courses : c # ret'.self => courses'[c] = courses[c]
          /\ Len(courses') = Len(courses)
          /\ student' = student
          /\ PrefixStep
      [] ret'.op = "Course" ->
          /\ SubSeq(courses', 1, Len(courses)) = courses
          /\ student' = student
          /\ PrefixStep
      [] OTHER -> (courses' = courses /\ student' = student)

\* C9: the course, assignment and attendance lists are append-only: every step
\* keeps each list's content as a prefix of its new content, add_course,
\* add_assignment and mark_attendance append exactly one element at the end
\* (duplicates included), and every query leaves all lists unchanged.
C9_AppendOnly == [][AppendOnlyStep]_vars

\* a transcript that differs from the course's own list, which holds two
\* assignments out of score order
C9_Witness ==
    /\ ret.op = "generate_transcript"
    /\ ret.value # courses[ret.self].assignments
    /\ Len(courses[ret.self].assignments) = 2

NoRepeats(s) == \A j, k \in DOMAIN s : j # k => s[j] # s[k]

\* C2: a transport failure at any statement of the SMTP exchange is caught and
\* printed exactly once, no statement is tried again, the call returns normally,
\* and "Report sent" is printed only when every statement returned.
C2_TransportFailure ==
    /\ NoRepeats(server.calls)
    /\ server.error # "none" => pc = "idle"
    /\ (ret.op = "send_report_to_parent" /\ server.error # "none") =>
          /\ ret.raised = "none"
          /\ ret.value = "None"
          /\ frame.printed = <<<<"Failed to send email:", server.error>>>>
    /\ \A k \in DOMAIN frame.printed :
          frame.printed[k][1] = "Report sent to" =>
              /\ server.error = "none"
              /\ server.calls = <<"SMTP", "starttls", "login", "sendmail", "quit">>
              /\ Len(frame.printed) = 1

\* the call has returned after quit, the last statement, raised
C2_Witness ==
    /\ ret.op = "send_report_to_parent"
    /\ pc = "idle"
    /\ server.error = "quit"
    /\ frame.printed = <<<<"Failed to send email:", "quit">>>>

\* C10: the transport statements run at most once each, in the order open,
\* starttls, login, sendmail, quit; a statement is attempted only after all the
\* earlier ones returned, a failure skips every later statement, and the
\* connection is closed only by a quit that follows a successful sendmail, so a
\* connection opened before a failure of starttls, login or sendmail stays open.
C10_TransportOrder ==
    /\ IsPrefix(server.calls, <<"SMTP", "starttls", "login", "sendmail", "quit">>)
    /\ server.error # "none" =>
          /\ server.calls # <<>>
          /\ server.error = server.calls[Len(server.calls)]
          /\ pc = "idle"
    /\ pc # "idle" =>
          /\ server.error = "none"
          /\ pc = <<"SMTP", "starttls", "login", "sendmail", "quit">>[Len(server.calls) + 1]
    /\ server.connection = "closed" => Len(server.calls) = 5
    /\ server.error \in {"starttls", "login", "sendmail"} => server.connection = "open"
    /\ server.error = "SMTP" => server.connection = "none"

\* the call has returned after sendmail raised on an open connection
C10_Witness ==
    /\ pc = "idle"
    /\ server.calls = <<"SMTP", "starttls", "login", "sendmail">>
    /\ server.error = "sendmail"
    /\ server.connection = "open"

\* C4 (as claimed): calculate_attendance, and generate_report and
\* send_report_to_parent through it, return a default instead of raising a
\* division error when a course has total_sessions = 0.
C4_ZeroSessionsGuarded ==
    ret.op \in {"calculate_attendance", "generate_report", "send_report_to_parent"} =>
        ret.raised # "ZeroDivisionError"

============================================================================
